---- MODULE Spec2Model ----
(***************************************************************************)
(* Puzzle generator (src/app.py): the /generate request handler and the   *)
(* puzzle engine behind it (grid sizing, edge pattern, piece masks, piece *)
(* compositing, cut guide, archive).                                      *)
(*                                                                         *)
(* Arithmetic.  The code computes cell sizes, padding and tab offsets in  *)
(* floating point.  The model keeps every such length exactly, as an      *)
(* integer number of 1/Scale pixels with Scale = 20 * rows * cols: with   *)
(* that unit inner_w / cols, 0.3 * L, 0.35 * L and 0.2 * L are integers.  *)
(* Where the code converts a float to an integer with int(), the model    *)
(* truncates toward zero.  A float whose operands are all representable   *)
(* in binary (Representable) is the exact value; otherwise it carries a   *)
(* rounding error, and when the exact value is a whole number the float   *)
(* may sit just short of it, so both outcomes of the truncation are       *)
(* allowed (FloatInt, SqrtInt).                                           *)
(***************************************************************************)
EXTENDS Integers, Sequences, FiniteSets

\* ------------------------------------------------------------------ bounds

\* Uploaded images of every size up to MaxDim x MaxDim are enumerated.
MaxDim == 4
\* Requested piece counts -NegPieces .. MaxPieces are enumerated.
MaxPieces == 4
NegPieces == 1
\* Grids with at most MaxEdges internal boundaries get every edge pattern;
\* larger grids get the sampled patterns of SampledPatterns.
MaxEdges == 4

\* ------------------------------------------------------- program constants

MAX_RES == 1000
DEFAULT_PIECES == 25

\* Larger uploads that the scenarios of the specification name, one upload
\* above MAX_RES in each orientation, and small uploads with a margin.
ScenarioSizes ==
  { <<800, 600>>, <<100, 100>>, <<2000, 1000>>, <<150, 3000>>, <<40, 20>> }
ScenarioPieces == { 20 }

UploadSizes == ((1..MaxDim) \X (1..MaxDim)) \cup ScenarioSizes

\* The 'pieces' form field: absent, not an integer, or an integer.
FormPieces ==
  { [kind |-> "absent", int |-> 0], [kind |-> "junk", int |-> 0] }
  \cup { [kind |-> "int", int |-> n] :
            n \in ((0 - NegPieces)..MaxPieces) \cup ScenarioPieces }

\* ------------------------------------------------------------------ state

VARIABLES
  pc,           \* where the request is: idle, saved, opened, edges, pieces, zip, zipped, done
  form,         \* the request: [pieces, size, readable]
  pieces,       \* generate()'s parsed piece count
  img_w, img_h, \* size of the (possibly downsampled) source image
  margin_px,
  rows, cols,
  v_edges, h_edges,
  r, c,         \* position of the piece loop
  piece,        \* what the last iteration of the piece loop computed
  disk,         \* files of this request on disk
  response      \* the HTTP response: [code, error]

vars ==
  << pc, form, pieces, img_w, img_h, margin_px, rows, cols, v_edges, h_edges,
     r, c, piece, disk, response >>

\* ---------------------------------------------------------------- helpers

Max(a, b) == IF a >= b THEN a ELSE b
Min(a, b) == IF a <= b THEN a ELSE b
Sgn(n) == IF n > 0 THEN 1 ELSE IF n < 0 THEN -1 ELSE 0

\* int(x) of an exact quotient n / d (d > 0): truncation toward zero.
TruncDiv(n, d) == IF n >= 0 THEN n \div d ELSE 0 - ((0 - n) \div d)

RECURSIVE GCD(_, _)
GCD(a, b) == IF b = 0 THEN a ELSE GCD(b, a % b)

RECURSIVE IsPow2(_)
IsPow2(n) == n = 1 \/ (n > 1 /\ n % 2 = 0 /\ IsPow2(n \div 2))

\* n / d (n >= 0, d > 0) is a binary fraction: a float holds it exactly.
Representable(n, d) == IsPow2(d \div GCD(d, n))

\* int(x) of a float whose exact value is n / d.  Unless the float is exact,
\* a whole number other than 0 may be held one rounding error short.
FloatInt(n, d, exact) ==
  IF n % d = 0 /\ n # 0 /\ ~exact
    THEN { n \div d, (n \div d) - Sgn(n) }
    ELSE { TruncDiv(n, d) }

RECURSIVE ISqrtFrom(_, _)
ISqrtFrom(n, k) == IF (k + 1) * (k + 1) > n THEN k ELSE ISqrtFrom(n, k + 1)
\* floor(sqrt(n)) for n >= 0
ISqrt(n) == ISqrtFrom(n, 0)

\* int(math.sqrt(x)) of a float x whose exact value is n / d >= 0.
SqrtInt(n, d, exact) ==
  LET k == ISqrt(n \div d)
  IN  IF n % d = 0 /\ k * k = n \div d /\ k > 0 /\ ~exact THEN { k - 1, k } ELSE { k }

\* ---------------------------------------------------------- calculate_grid

\* calculate_grid without the two clamps to 1.
calculate_grid_noclamp(width, height, num_pieces) ==
  IF num_pieces < 0
    THEN { [error |-> "math domain error", rows |-> 0, cols |-> 0] }
    ELSE { [error |-> "", rows |-> rw, cols |-> TruncDiv(num_pieces, Max(rw, 1))] :
             rw \in SqrtInt(num_pieces * height, width, Representable(width, height)) }

\* calculate_grid with round() in place of int() on the square root.
calculate_grid_round(width, height, num_pieces) ==
  IF num_pieces < 0
    THEN { [error |-> "math domain error", rows |-> 0, cols |-> 0] }
    ELSE LET k == ISqrt((num_pieces * height) \div width)
             rw == IF 4 * num_pieces * height >= ((4 * k * k) + (4 * k) + 1) * width
                     THEN k + 1 ELSE k
         IN  { [error |-> "",
                rows |-> Max(rw, 1),
                cols |-> Max(TruncDiv(num_pieces, Max(rw, 1)), 1)] }

\* calculate_grid with the aspect ratio taken as height / width.
calculate_grid_swapped(width, height, num_pieces) ==
  IF num_pieces < 0
    THEN { [error |-> "math domain error", rows |-> 0, cols |-> 0] }
    ELSE { [error |-> "",
            rows |-> Max(rw, 1),
            cols |-> Max(TruncDiv(num_pieces, Max(rw, 1)), 1)] :
             rw \in SqrtInt(num_pieces * width, height, Representable(height, width)) }

\* The outcomes of calculate_grid(width, height, num_pieces): math.sqrt
\* raises ValueError on a negative argument; otherwise rows and cols.
calculate_grid(width, height, num_pieces) ==
  IF num_pieces < 0
    THEN { [error |-> "math domain error", rows |-> 0, cols |-> 0] }
    ELSE { [error |-> "",
            rows |-> IF rw = 0 THEN 1 ELSE rw,
            cols |-> LET cl == TruncDiv(num_pieces, Max(rw, 1))
                     IN  IF cl = 0 THEN 1 ELSE cl] :
             rw \in SqrtInt(num_pieces * height, width, Representable(width, height)) }

\* ------------------------------------------------------------- thumbnail

\* original_full.thumbnail((MAX_RES, MAX_RES)): the aspect ratio is kept, the
\* longer side becomes MAX_RES and the other the floor or the ceiling of its
\* exact value, at least 1.
Thumbnail(w, h) ==
  IF Max(w, h) <= MAX_RES THEN { <<w, h>> }
  ELSE IF h >= w
    THEN { <<Max(x, 1), MAX_RES>> :
             x \in { (MAX_RES * w) \div h, ((MAX_RES * w) + h - 1) \div h } }
    ELSE { <<MAX_RES, Max(y, 1)>> :
             y \in { (MAX_RES * h) \div w, ((MAX_RES * h) + w - 1) \div w } }

\* margin_px = int(min(img_w, img_h) * 0.05)
Margin(w, h) == (Min(w, h) * 5) \div 100

inner_w == img_w - (2 * margin_px)
inner_h == img_h - (2 * margin_px)

\* One pixel, in the unit all cell geometry is kept in.
Scale == 20 * rows * cols
\* piece_w = inner_w / cols and piece_h = inner_h / rows, in 1/Scale pixels
piece_w == inner_w * 20 * rows
piece_h == inner_h * 20 * cols

\* -------------------------------------------------- get_square_tab_points

\* The four points of a rectangular tab on an edge of the given length,
\* relative to the edge start: neck 0.3 * length wide, centred, 0.2 * length
\* out (is_tab) or in.
get_square_tab_points(length, is_tab) ==
  LET tab_width == (3 * length) \div 10
      tab_height == (2 * length) \div 10
      x1 == (length - tab_width) \div 2
      x2 == x1 + tab_width
      y_offset == IF is_tab THEN tab_height ELSE 0 - tab_height
  IN  << <<x1, 0>>, <<x1, y_offset>>, <<x2, y_offset>>, <<x2, 0>> >>

\* ------------------------------------------------------ create_piece_mask

\* padding = max(piece_w, piece_h) * 0.3
Padding(pw, ph) == (3 * Max(pw, ph)) \div 10

\* The floats side (piece_w or piece_h) and padding (the product of the
\* longer side and 0.3) are exact.
ExactCell(side, pw, ph) ==
  /\ Representable(side, Scale)
  /\ Representable(Max(pw, ph), Scale)
  /\ Representable(Padding(pw, ph), Scale)

\* Internal box corners of the mask, in mask coordinates.
Corners(pw, ph) ==
  LET padding == Padding(pw, ph)
  IN  [ tl |-> <<padding, padding>>,
        tr |-> <<padding + pw, padding>>,
        br |-> <<padding + pw, padding + ph>>,
        bl |-> <<padding, padding + ph>> ]

\* The points each side appends to the polygon (shape: 0 = Flat, 1 = Tab,
\* -1 = Hole).  Top runs tl -> tr, right tr -> br, bottom br -> bl, left
\* bl -> tl (the closing corner tl is the polygon's first point).
MaskTop(pw, ph, shape) ==
  LET k == Corners(pw, ph)
      tab_pts == get_square_tab_points(pw, shape = 1)
  IN  IF shape = 0 THEN << k.tr >>
      ELSE [i \in 1..4 |-> <<k.tl[1] + tab_pts[i][1], k.tl[2] - tab_pts[i][2]>>]
           \o << k.tr >>

MaskRight(pw, ph, shape) ==
  LET k == Corners(pw, ph)
      tab_pts == get_square_tab_points(ph, shape = 1)
  IN  IF shape = 0 THEN << k.br >>
      ELSE [i \in 1..4 |-> <<k.tr[1] + tab_pts[i][2], k.tr[2] + tab_pts[i][1]>>]
           \o << k.br >>

MaskBottom(pw, ph, shape) ==
  LET k == Corners(pw, ph)
      tab_pts == get_square_tab_points(pw, shape = 1)
  IN  IF shape = 0 THEN << k.bl >>
      ELSE [i \in 1..4 |->
              <<k.bl[1] + (pw - tab_pts[i][1]), k.bl[2] + tab_pts[i][2]>>]
           \o << k.bl >>

MaskLeft(pw, ph, shape) ==
  LET k == Corners(pw, ph)
      tab_pts == get_square_tab_points(ph, shape = 1)
  IN  IF shape = 0 THEN << >>
      ELSE [i \in 1..4 |->
              <<k.tl[1] - tab_pts[i][2], k.tl[2] + (ph - tab_pts[i][1])>>]

\* The polygon create_piece_mask builds, in mask coordinates:
\* edge_shapes = <<top, right, bottom, left>>.
MaskPoints(pw, ph, edge_shapes) ==
  << Corners(pw, ph).tl >>
  \o MaskTop(pw, ph, edge_shapes[1])
  \o MaskRight(pw, ph, edge_shapes[2])
  \o MaskBottom(pw, ph, edge_shapes[3])
  \o MaskLeft(pw, ph, edge_shapes[4])

\* The outcomes of create_piece_mask: the mask size (two int() conversions),
\* the padding and the polygon.
create_piece_mask(pw, ph, edge_shapes) ==
  { [mask_w |-> mw, mask_h |-> mh, padding |-> Padding(pw, ph),
     points |-> MaskPoints(pw, ph, edge_shapes)] :
      mw \in FloatInt(pw + (2 * Padding(pw, ph)), Scale, ExactCell(pw, pw, ph)),
      mh \in FloatInt(ph + (2 * Padding(pw, ph)), Scale, ExactCell(ph, pw, ph)) }

\* ------------------------------------------- draw_cut_lines_on_full_image

\* The cut curve of the vertical boundary left of column cc (1 <= cc < cols)
\* in row rr, in image coordinates.
GuideVertical(rr, cc) ==
  LET x_base == (margin_px * Scale) + (cc * piece_w)
      y_start == (margin_px * Scale) + (rr * piece_h)
      y_end == (margin_px * Scale) + ((rr + 1) * piece_h)
      tab_pts == get_square_tab_points(piece_h, v_edges[<<rr, cc - 1>>] = 1)
  IN  << <<x_base, y_start>> >>
      \o [i \in 1..4 |-> <<x_base + tab_pts[i][2], y_start + tab_pts[i][1]>>]
      \o << <<x_base, y_end>> >>

\* The cut curve of the horizontal boundary above row rr (1 <= rr < rows) in
\* column cc, in image coordinates.
GuideHorizontal(rr, cc) ==
  LET y_base == (margin_px * Scale) + (rr * piece_h)
      x_start == (margin_px * Scale) + (cc * piece_w)
      x_end == (margin_px * Scale) + ((cc + 1) * piece_w)
      tab_pts == get_square_tab_points(piece_w, h_edges[<<rr - 1, cc>>] = 1)
  IN  << <<x_start, y_base>> >>
      \o [i \in 1..4 |-> <<x_start + tab_pts[i][1], y_base + tab_pts[i][2]>>]
      \o << <<x_end, y_base>> >>

\* ------------------------------------------------------------ edge pattern

VDomain(rw, cl) == (0..(rw - 1)) \X (0..(cl - 2))
HDomain(rw, cl) == (0..(rw - 2)) \X (0..(cl - 1))

Checker(d, first) == IF (d[1] + d[2]) % 2 = 0 THEN first ELSE 0 - first

\* Patterns drawn for a grid too large to enumerate every pattern of.
SampledPatterns(rw, cl) ==
  { [v |-> [d \in VDomain(rw, cl) |-> a], h |-> [d \in HDomain(rw, cl) |-> b]] :
      a \in {1, -1}, b \in {1, -1} }
  \cup
  { [v |-> [d \in VDomain(rw, cl) |-> Checker(d, a)],
     h |-> [d \in HDomain(rw, cl) |-> Checker(d, b)]] : a \in {1, -1}, b \in {1, -1} }

\* v_edges and h_edges: every entry is random.choice([1, -1]).
EdgePatterns(rw, cl) ==
  IF Cardinality(VDomain(rw, cl)) + Cardinality(HDomain(rw, cl)) <= MaxEdges
    THEN { [v |-> fv, h |-> fh] :
             fv \in [VDomain(rw, cl) -> {1, -1}], fh \in [HDomain(rw, cl) -> {1, -1}] }
    ELSE SampledPatterns(rw, cl)

\* Python's h_edges[r - 1] with r = 0 is the last row of h_edges: the top
\* side without the test for the first row.
EdgeShapes_notopcheck(rr, cc) ==
  << IF rows = 1 THEN 0 ELSE 0 - h_edges[<<(rr - 1) % (rows - 1), cc>>],
     IF cc = cols - 1 THEN 0 ELSE v_edges[<<rr, cc>>],
     IF rr = rows - 1 THEN 0 ELSE h_edges[<<rr, cc>>],
     IF cc = 0 THEN 0 ELSE 0 - v_edges[<<rr, cc - 1>>] >>

\* The left side taken from the shared entry without negating it.
EdgeShapes_nonegation(rr, cc) ==
  << IF rr = 0 THEN 0 ELSE 0 - h_edges[<<rr - 1, cc>>],
     IF cc = cols - 1 THEN 0 ELSE v_edges[<<rr, cc>>],
     IF rr = rows - 1 THEN 0 ELSE h_edges[<<rr, cc>>],
     IF cc = 0 THEN 0 ELSE v_edges[<<rr, cc - 1>>] >>

\* <<top, right, bottom, left>> of piece (rr, cc)
EdgeShapes(rr, cc) ==
  << IF rr = 0 THEN 0 ELSE 0 - h_edges[<<rr - 1, cc>>],
     IF cc = cols - 1 THEN 0 ELSE v_edges[<<rr, cc>>],
     IF rr = rows - 1 THEN 0 ELSE h_edges[<<rr, cc>>],
     IF cc = 0 THEN 0 ELSE 0 - v_edges[<<rr, cc - 1>>] >>

\* ------------------------------------------------------------------- Init

NoPiece ==
  [ valid |-> FALSE, r |-> 0, c |-> 0, edge_shapes |-> <<0, 0, 0, 0>>,
    mask_w |-> 0, mask_h |-> 0, crop_x |-> 0, crop_y |-> 0,
    src_x |-> 0, src_y |-> 0, src_w |-> 0, src_h |-> 0,
    pasted |-> FALSE, paste_x |-> 0, paste_y |-> 0 ]

NoFiles ==
  [ upload |-> FALSE, guide |-> "none", pieces |-> 0, partial_piece |-> FALSE,
    zip |-> "none" ]

Init ==
  /\ pc = "idle"
  /\ form = [pieces |-> [kind |-> "absent", int |-> 0], size |-> <<0, 0>>, readable |-> FALSE]
  /\ pieces = 0
  /\ img_w = 0 /\ img_h = 0 /\ margin_px = 0
  /\ rows = 0 /\ cols = 0
  /\ v_edges = << >> /\ h_edges = << >>
  /\ r = 0 /\ c = 0
  /\ piece = NoPiece
  /\ disk = NoFiles
  /\ response = [code |-> 0, error |-> ""]

\* --------------------------------------------------------------- generate

\* pieces = int(request.form.get('pieces', 25)), 25 when int() raises
ParsePieces(fp) == IF fp.kind = "int" THEN fp.int ELSE DEFAULT_PIECES

\* An exception inside the try block: one 500 response, nothing removed.
Raise(reason) ==
  /\ response' = [code |-> 500, error |-> reason]
  /\ pc' = "done"

\* The request carries no 'image' file.
generate_no_image ==
  /\ pc = "idle"
  /\ response' = [code |-> 400, error |-> "No image uploaded"]
  /\ pc' = "done"
  /\ UNCHANGED << form, pieces, img_w, img_h, margin_px, rows, cols, v_edges,
                  h_edges, r, c, piece, disk >>

\* The uploaded file has an empty name.
generate_no_filename ==
  /\ pc = "idle"
  /\ \E fp \in FormPieces :
       /\ form' = [form EXCEPT !.pieces = fp]
       /\ pieces' = ParsePieces(fp)
  /\ response' = [code |-> 400, error |-> "No selected file"]
  /\ pc' = "done"
  /\ UNCHANGED << img_w, img_h, margin_px, rows, cols, v_edges, h_edges, r, c,
                  piece, disk >>

\* The count is parsed and the upload saved under a fresh session id.
generate_save ==
  /\ pc = "idle"
  /\ \E fp \in FormPieces, readable \in BOOLEAN :
       \E size \in (IF readable THEN UploadSizes ELSE { <<0, 0>> }) :
         /\ form' = [pieces |-> fp, size |-> size, readable |-> readable]
         /\ pieces' = ParsePieces(fp)
  /\ disk' = [disk EXCEPT !.upload = TRUE]
  /\ pc' = "saved"
  /\ UNCHANGED << img_w, img_h, margin_px, rows, cols, v_edges, h_edges, r, c,
                  piece, response >>

\* zip_path returned: the upload is removed and the download URL returned.
generate_respond ==
  /\ pc = "zipped"
  /\ disk' = [disk EXCEPT !.upload = FALSE]
  /\ response' = [code |-> 200, error |-> ""]
  /\ pc' = "done"
  /\ UNCHANGED << form, pieces, img_w, img_h, margin_px, rows, cols, v_edges,
                  h_edges, r, c, piece >>

\* ---------------------------------------------------------- process_image

\* Image.open raises on a file that is no image.
open_raises ==
  /\ pc = "saved"
  /\ ~form.readable
  /\ Raise("cannot identify image file")
  /\ UNCHANGED << form, pieces, img_w, img_h, margin_px, rows, cols, v_edges,
                  h_edges, r, c, piece, disk >>

\* The image is opened and downsampled, the margin reserved; calculate_grid
\* raises.
grid_raises ==
  /\ pc = "saved"
  /\ form.readable
  /\ \E sz \in Thumbnail(form.size[1], form.size[2]) :
       LET m == Margin(sz[1], sz[2])
       IN  \E g \in calculate_grid(sz[1] - (2 * m), sz[2] - (2 * m), pieces) :
             /\ g.error # ""
             /\ img_w' = sz[1] /\ img_h' = sz[2] /\ margin_px' = m
             /\ Raise(g.error)
  /\ UNCHANGED << form, pieces, rows, cols, v_edges, h_edges, r, c, piece, disk >>

\* The image is opened and downsampled, the margin reserved and the grid
\* planned.
plan_grid ==
  /\ pc = "saved"
  /\ form.readable
  /\ \E sz \in Thumbnail(form.size[1], form.size[2]) :
       LET m == Margin(sz[1], sz[2])
       IN  \E g \in calculate_grid(sz[1] - (2 * m), sz[2] - (2 * m), pieces) :
             /\ g.error = ""
             /\ img_w' = sz[1] /\ img_h' = sz[2] /\ margin_px' = m
             /\ rows' = g.rows /\ cols' = g.cols
  /\ pc' = "opened"
  /\ UNCHANGED << form, pieces, v_edges, h_edges, r, c, piece, disk, response >>

\* The session directories are made and the edge pattern drawn.
draw_edges ==
  /\ pc = "opened"
  /\ \E p \in EdgePatterns(rows, cols) :
       /\ v_edges' = p.v
       /\ h_edges' = p.h
  /\ pc' = "edges"
  /\ UNCHANGED << form, pieces, img_w, img_h, margin_px, rows, cols, r, c, piece,
                  disk, response >>

\* The guide is drawn and saved.
draw_cut_lines_on_full_image ==
  /\ pc = "edges"
  /\ disk' = [disk EXCEPT !.guide = "complete"]
  /\ r' = 0 /\ c' = 0
  /\ pc' = "pieces"
  /\ UNCHANGED << form, pieces, img_w, img_h, margin_px, rows, cols, v_edges,
                  h_edges, piece, response >>

\* Saving the guide raises: the file is absent or incomplete.
guide_raises ==
  /\ pc = "edges"
  /\ \E left \in {"none", "partial"} : disk' = [disk EXCEPT !.guide = left]
  /\ Raise("cannot write guide")
  /\ UNCHANGED << form, pieces, img_w, img_h, margin_px, rows, cols, v_edges,
                  h_edges, r, c, piece >>

\* The crop origin of piece (rr, cc): two int() conversions.
CropOrigins(rr, cc, padding) ==
  { <<cx, cy>> :
      cx \in FloatInt((margin_px * Scale) + (cc * piece_w) - padding, Scale,
                      ExactCell(piece_w, piece_w, piece_h)),
      cy \in FloatInt((margin_px * Scale) + (rr * piece_h) - padding, Scale,
                      ExactCell(piece_h, piece_w, piece_h)) }

\* One iteration of the piece loop after the mask is made: the crop
\* rectangle is clipped to the image and the chunk pasted.
Composite(rr, cc, m, crop) ==
  LET src_x == Max(0, crop[1])
      src_y == Max(0, crop[2])
      src_w == Min(img_w, crop[1] + m.mask_w) - src_x
      src_h == Min(img_h, crop[2] + m.mask_h) - src_y
  IN  [ valid |-> TRUE, r |-> rr, c |-> cc, edge_shapes |-> EdgeShapes(rr, cc),
        mask_w |-> m.mask_w, mask_h |-> m.mask_h,
        crop_x |-> crop[1], crop_y |-> crop[2],
        src_x |-> src_x, src_y |-> src_y, src_w |-> src_w, src_h |-> src_h,
        pasted |-> (src_w > 0 /\ src_h > 0),
        paste_x |-> src_x - crop[1], paste_y |-> src_y - crop[2] ]

\* Piece (r, c) is masked, composited and saved; the loop advances.
make_piece ==
  /\ pc = "pieces"
  /\ \E m \in create_piece_mask(piece_w, piece_h, EdgeShapes(r, c)) :
       \E crop \in CropOrigins(r, c, m.padding) :
         piece' = Composite(r, c, m, crop)
  /\ disk' = [disk EXCEPT !.pieces = @ + 1]
  /\ IF c + 1 < cols
       THEN r' = r /\ c' = c + 1 /\ pc' = "pieces"
       ELSE IF r + 1 < rows
         THEN r' = r + 1 /\ c' = 0 /\ pc' = "pieces"
         ELSE r' = r /\ c' = c /\ pc' = "zip"
  /\ UNCHANGED << form, pieces, img_w, img_h, margin_px, rows, cols, v_edges,
                  h_edges, response >>

\* Saving piece (r, c) raises: its file is absent or incomplete.
piece_raises ==
  /\ pc = "pieces"
  /\ \E left \in BOOLEAN : disk' = [disk EXCEPT !.partial_piece = left]
  /\ Raise("cannot write piece")
  /\ UNCHANGED << form, pieces, img_w, img_h, margin_px, rows, cols, v_edges,
                  h_edges, r, c, piece >>

\* The guide and the pieces are zipped; process_image returns zip_path.
zip_pack ==
  /\ pc = "zip"
  /\ disk' = [disk EXCEPT !.zip = "complete"]
  /\ pc' = "zipped"
  /\ UNCHANGED << form, pieces, img_w, img_h, margin_px, rows, cols, v_edges,
                  h_edges, r, c, piece, response >>

\* Writing the archive raises: it is absent or incomplete.
zip_raises ==
  /\ pc = "zip"
  /\ \E left \in {"none", "partial"} : disk' = [disk EXCEPT !.zip = left]
  /\ Raise("cannot write archive")
  /\ UNCHANGED << form, pieces, img_w, img_h, margin_px, rows, cols, v_edges,
                  h_edges, r, c, piece >>

Next ==
  \/ generate_no_image
  \/ generate_no_filename
  \/ generate_save
  \/ open_raises
  \/ grid_raises
  \/ plan_grid
  \/ draw_edges
  \/ draw_cut_lines_on_full_image
  \/ guide_raises
  \/ make_piece
  \/ piece_raises
  \/ zip_pack
  \/ zip_raises
  \/ generate_respond

Spec == Init /\ [][Next]_vars

\* ----------------------------------------------------------------- claims

\* The grid is planned (plan_grid has acted in this request).
Planned == rows >= 1
\* The edge pattern is drawn (no step between plan_grid and draw_edges raises).
EdgesDrawn == Planned /\ pc \notin {"idle", "saved", "opened"}

Cells == (0..(rows - 1)) \X (0..(cols - 1))

\* C1: every internal boundary is complementary.  For each internal vertical
\* boundary the right side of piece (r,c) and the left side of piece (r,c+1)
\* are one Tab and one Hole, and for each internal horizontal boundary the
\* bottom side of piece (r,c) and the top side of piece (r+1,c) are one Tab
\* and one Hole: never equal, never Flat.
C1_Complementary ==
  EdgesDrawn =>
    \A k \in Cells :
      /\ k[2] + 1 < cols =>
           { EdgeShapes(k[1], k[2])[2], EdgeShapes(k[1], k[2] + 1)[4] } = {1, -1}
      /\ k[1] + 1 < rows =>
           { EdgeShapes(k[1], k[2])[3], EdgeShapes(k[1] + 1, k[2])[1] } = {1, -1}

\* A piece with a left and an upper neighbour has been cut.
C1_Witness ==
  /\ piece.valid /\ piece.r >= 1 /\ piece.c >= 1
  /\ piece.edge_shapes[1] # 0 /\ piece.edge_shapes[4] # 0
  /\ piece.edge_shapes[4] = 0 - EdgeShapes(piece.r, piece.c - 1)[2]

\* C2: every side of a piece that lies on the perimeter of the grid (top when
\* r = 0, bottom when r = rows-1, left when c = 0, right when c = cols-1) is
\* Flat, whatever the edge pattern is.
C2_PerimeterFlat ==
  EdgesDrawn =>
    \A k \in Cells :
      /\ k[1] = 0 => EdgeShapes(k[1], k[2])[1] = 0
      /\ k[2] = cols - 1 => EdgeShapes(k[1], k[2])[2] = 0
      /\ k[1] = rows - 1 => EdgeShapes(k[1], k[2])[3] = 0
      /\ k[2] = 0 => EdgeShapes(k[1], k[2])[4] = 0

\* The corner piece of a grid of at least 2 x 2 has been cut: two perimeter
\* sides, two internal sides.
C2_Witness ==
  /\ piece.valid /\ rows >= 2 /\ cols >= 2
  /\ piece.r = 0 /\ piece.c = 0
  /\ piece.edge_shapes[1] = 0 /\ piece.edge_shapes[4] = 0
  /\ piece.edge_shapes[2] # 0 /\ piece.edge_shapes[3] # 0

C4_OnePieceAlways ==
  (form.readable /\ pieces = 1 /\ Planned) =>
    /\ rows = 1 /\ cols = 1
    /\ piece.valid => piece.edge_shapes = <<0, 0, 0, 0>>

\* C4, amended: a requested piece count of 1 gives a 1x1 grid whose single
\* piece has four Flat sides when the inner area (the image less its margin)
\* is less than 4 times as tall as wide.
C4_OnePieceUnlessTall ==
  (form.readable /\ pieces = 1 /\ Planned /\ inner_h < 4 * inner_w) =>
    /\ rows = 1 /\ cols = 1
    /\ piece.valid => piece.edge_shapes = <<0, 0, 0, 0>>

\* The single piece of a very wide image has been cut.
C4_Witness ==
  /\ pieces = 1 /\ piece.valid
  /\ inner_w >= 2 * inner_h
  /\ piece.edge_shapes = <<0, 0, 0, 0>>

Near(a, b) == a - b \in {-1, 0, 1}
Scenario800x600 == form.readable /\ form.size = <<800, 600>> /\ pieces = 20 /\ Planned

\* C5 as stated: an 800x600 image and a piece count of 20 give a grid close to
\* 5x4 or 4x5 and 24 pieces.
C5_TwentyFourPieces ==
  Scenario800x600 =>
    /\ \/ Near(rows, 5) /\ Near(cols, 4)
       \/ Near(rows, 4) /\ Near(cols, 5)
    /\ response.code = 200 => disk.pieces = 24

\* C5, amended: an 800x600 image and a piece count of 20 give a grid of 3 rows
\* and 6 columns and 18 pieces.
C5_EighteenPieces ==
  Scenario800x600 =>
    /\ rows = 3 /\ cols = 6
    /\ response.code = 200 => disk.pieces = rows * cols /\ disk.pieces = 18

\* The 800x600 run with 20 requested pieces has answered.
C5_Witness == Scenario800x600 /\ response.code = 200 /\ disk.zip = "complete"

\* ------------------------------------------------- guide against the mask

Range(f) == { f[i] : i \in DOMAIN f }

\* A mask point in image coordinates: piece pixel (0, 0) is image pixel
\* (crop_x, crop_y).
InImage(p) == << p[1] + (piece.crop_x * Scale), p[2] + (piece.crop_y * Scale) >>

\* The vertices of one side of the last piece's mask polygon, both corners
\* included, in image coordinates.
SideVertices(side) ==
  LET k == Corners(piece_w, piece_h)
      sh == piece.edge_shapes
      pts == CASE side = 1 -> << k.tl >> \o MaskTop(piece_w, piece_h, sh[1])
               [] side = 2 -> << k.tr >> \o MaskRight(piece_w, piece_h, sh[2])
               [] side = 3 -> << k.br >> \o MaskBottom(piece_w, piece_h, sh[3])
               [] side = 4 -> << k.bl >> \o MaskLeft(piece_w, piece_h, sh[4]) \o << k.tl >>
  IN  { InImage(q) : q \in Range(pts) }

\* C6: for every internal boundary, the cut curve of the guide and the mask
\* edge of each of the two pieces sharing it consist of the same vertices once
\* the mask's coordinates are translated by the piece's crop origin.
C6_GuideMatchesMask ==
  piece.valid =>
    /\ piece.r > 0 => SideVertices(1) = Range(GuideHorizontal(piece.r, piece.c))
    /\ piece.c < cols - 1 => SideVertices(2) = Range(GuideVertical(piece.r, piece.c + 1))
    /\ piece.r < rows - 1 => SideVertices(3) = Range(GuideHorizontal(piece.r + 1, piece.c))
    /\ piece.c > 0 => SideVertices(4) = Range(GuideVertical(piece.r, piece.c))

\* ------------------------------------------------------ request outcomes

\* The 'pieces' field is unparsable or a non-positive integer.
InvalidCount ==
  \/ form.pieces.kind = "junk"
  \/ form.pieces.kind = "int" /\ form.pieces.int <= 0

\* C7: an unparsable or non-positive piece count never makes a request fail;
\* the default count is substituted and the run proceeds with a valid grid.
C7_InvalidCountRecovered ==
  (pc = "done" /\ form.readable /\ InvalidCount) =>
    /\ pieces = DEFAULT_PIECES
    /\ response.error # "math domain error"
    /\ rows >= 1 /\ cols >= 1

\* C8: a run that fails at any step ends with one error response and leaves
\* no guide, piece, archive or upload of that run on disk.
C8_FailureLeavesNothing ==
  response.code = 500 =>
    /\ pc = "done"
    /\ disk = NoFiles

\* --------------------------------------------------------- polygon shape

\* Closed segment a-b as a box; the polygon's segments are axis-parallel.
Box(a, b) ==
  [ x0 |-> Min(a[1], b[1]), x1 |-> Max(a[1], b[1]),
    y0 |-> Min(a[2], b[2]), y1 |-> Max(a[2], b[2]) ]

\* Two axis-parallel segments have a common point.
Meet(s, t) == s.x0 <= t.x1 /\ t.x0 <= s.x1 /\ s.y0 <= t.y1 /\ t.y0 <= s.y1

\* Two axis-parallel segments have exactly one common point.
MeetInOnePoint(s, t) ==
  /\ Meet(s, t)
  /\ Max(s.x0, t.x0) = Min(s.x1, t.x1)
  /\ Max(s.y0, t.y0) = Min(s.y1, t.y1)

\* Segment i of the closed polygon: points[i] to the next point, the last
\* one back to the first.
Segment(points, i) == Box(points[i], points[(i % Len(points)) + 1])

\* The closed polygon does not touch or cross itself.
SimplePolygon(points) ==
  LET n == Len(points)
      adjacent(i, j) == j = i + 1 \/ (i = 1 /\ j = n)
  IN  \A i \in 1..n : \A j \in (i + 1)..n :
        IF adjacent(i, j)
          THEN MeetInOnePoint(Segment(points, i), Segment(points, j))
          ELSE ~Meet(Segment(points, i), Segment(points, j))

\* C9: for every cell size calculate_grid can yield from a piece count
\* N >= 1 and every side classification, the polygon of create_piece_mask is
\* closed and non-self-intersecting: the notches or tabs of two opposite
\* sides never cross or overlap.
C9_PolygonSimple ==
  (piece.valid /\ pieces >= 1) =>
    SimplePolygon(MaskPoints(piece_w, piece_h, piece.edge_shapes))

\* ------------------------------------------------------------ compositing

\* draw.polygon(points, fill=255): the vertices are cut to whole pixels and
\* the polygon is filled, its outline included.
PolygonPixels(points) ==
  [ i \in DOMAIN points |->
      << TruncDiv(points[i][1], Scale), TruncDiv(points[i][2], Scale) >> ]

\* The pixels of segment i of the drawn polygon that lie in the mask and whose
\* source coordinate is outside the image.  Outline pixels are filled, so
\* each of them is an opaque pixel that received no source colour.
OutlineOutside(poly, i) ==
  LET s == Segment(poly, i)
      x0 == Max(s.x0, 0)
      x1 == Min(s.x1, piece.mask_w - 1)
      y0 == Max(s.y0, 0)
      y1 == Min(s.y1, piece.mask_h - 1)
  IN  /\ x0 <= x1 /\ y0 <= y1
      /\ \/ piece.crop_x + x0 < 0
         \/ piece.crop_x + x1 > img_w - 1
         \/ piece.crop_y + y0 < 0
         \/ piece.crop_y + y1 > img_h - 1

\* Mask columns and rows whose source coordinate is inside the image.
InsideColumns == { x \in 0..(piece.mask_w - 1) : piece.crop_x + x \in 0..(img_w - 1) }
InsideRows == { y \in 0..(piece.mask_h - 1) : piece.crop_y + y \in 0..(img_h - 1) }

\* C10: compositing copies exactly the intersection of the crop rectangle with
\* the image, pasted at (src_x - crop_x, src_y - crop_y), and after the mask is
\* applied every pixel of the piece whose source coordinate is outside the
\* image has alpha 0 (stated here of the pixels of the polygon's outline).
C10_ClippedComposite ==
  piece.valid =>
    LET poly == PolygonPixels(MaskPoints(piece_w, piece_h, piece.edge_shapes))
    IN  /\ piece.pasted = (InsideColumns # {} /\ InsideRows # {})
        /\ piece.pasted =>
             /\ InsideColumns = piece.paste_x..(piece.paste_x + piece.src_w - 1)
             /\ InsideRows = piece.paste_y..(piece.paste_y + piece.src_h - 1)
             /\ piece.src_x = piece.crop_x + piece.paste_x
             /\ piece.src_y = piece.crop_y + piece.paste_y
        /\ \A i \in DOMAIN poly : ~OutlineOutside(poly, i)

====
